---- MODULE Spec2Model ----
(***************************************************************************)
(* The Las Vegas events pipeline of agents/vegas_agent/agent.py:           *)
(* parse_time_expression (phrase -> date window), get_events (request      *)
(* construction, per-record normalisation, sort, cap, result).             *)
(*                                                                         *)
(* Strings the code matches by substring are sequences of one-character    *)
(* strings; dates are Python proleptic Gregorian ordinals, formatted to    *)
(* <<year, month, day>> the way strftime("%Y-%m-%d") does; a datetime is a *)
(* record [ord, sec] (calendar day, second of the day); an Optional value  *)
(* is <<>> (None) or <<v>>.                                                *)
(***************************************************************************)
EXTENDS Integers, Sequences, FiniteSets, TLC

VARIABLES
  now,        \* wall clock in the venue's timezone: [ord, sec]
  hostShift,  \* seconds the host's local clock is ahead of the venue's
  ticks,      \* clock ticks taken so far (bounded)
  pc,         \* position of the one invocation of get_events
  args,       \* the caller's arguments
  start_date, \* local of get_events: Optional date string
  end_date,   \* local of get_events: Optional date string
  current_time, \* local of get_events (line 309): Optional datetime
  params,     \* the request sent to the event source: Optional record
  response,   \* the event source's answer: Optional record
  events,     \* local of get_events: the normalised records, sorted
  result,     \* the returned dict: Optional record
  TM_API_KEY, \* module global (line 22): Optional key of the event source
  net_calls,  \* calls of requests.get made so far
  cancelled,  \* the caller has cancelled or timed out the invocation
  normalized  \* log of the normalisations of one raw record

vars == <<now, hostShift, ticks, pc, args, start_date, end_date,
          current_time, params, response, events, result,
          TM_API_KEY, net_calls, cancelled, normalized>>

None == <<>>
Some(v) == <<v>>
IsNone(o) == Len(o) = 0
IsSome(o) == Len(o) = 1
Val(o) == o[1]

(***************************************************************************)
(* Bounds of the model.                                                    *)
(***************************************************************************)
NumAnchorDays == 7      \* resolver runs: consecutive anchor days
MaxBatch == 2           \* raw records in one answer of the event source
MaxTicks == 1           \* clock ticks during one invocation

(***************************************************************************)
(* Strings.                                                                *)
(***************************************************************************)
UpperChars == <<"A","B","C","D","E","F","G","H","I","J","K","L","M","N","O","P","Q","R","S","T","U","V","W","X","Y","Z">>
LowerChars == <<"a","b","c","d","e","f","g","h","i","j","k","l","m","n","o","p","q","r","s","t","u","v","w","x","y","z">>

\* str.lower() on one character
LowerChar(c) ==
  IF \E i \in 1..Len(UpperChars) : UpperChars[i] = c
  THEN LowerChars[CHOOSE i \in 1..Len(UpperChars) : UpperChars[i] = c]
  ELSE c

\* str.lower()
Lower(s) == [i \in 1..Len(s) |-> LowerChar(s[i])]

\* str.strip(): leading and trailing blanks removed
Strip(s) ==
  LET nonBlank == {i \in 1..Len(s) : s[i] # " "}
      Min(S) == CHOOSE x \in S : \A y \in S : x <= y
      Max(S) == CHOOSE x \in S : \A y \in S : x >= y
  IN IF nonBlank = {} THEN <<>> ELSE SubSeq(s, Min(nonBlank), Max(nonBlank))

\* Python's `sub in s` on strings
Contains(sub, s) ==
  \E i \in 1..(Len(s) - Len(sub) + 1) : SubSeq(s, i, i + Len(sub) - 1) = sub

Kw_tonight == <<"t","o","n","i","g","h","t">>
Kw_today == <<"t","o","d","a","y">>
Kw_tomorrow == <<"t","o","m","o","r","r","o","w">>
Kw_this_week == <<"t","h","i","s"," ","w","e","e","k">>
Kw_next_week == <<"n","e","x","t"," ","w","e","e","k">>
Kw_weekend == <<"w","e","e","k","e","n","d">>
Kw_next == <<"n","e","x","t">>
Kw_monday == <<"m","o","n","d","a","y">>
Kw_tuesday == <<"t","u","e","s","d","a","y">>
Kw_wednesday == <<"w","e","d","n","e","s","d","a","y">>
Kw_thursday == <<"t","h","u","r","s","d","a","y">>
Kw_friday == <<"f","r","i","d","a","y">>
Kw_saturday == <<"s","a","t","u","r","d","a","y">>
Kw_sunday == <<"s","u","n","d","a","y">>

\* day_map of parse_time_expression, in its iteration order; the weekday
\* number of the i-th entry is i - 1
day_map == <<Kw_monday, Kw_tuesday, Kw_wednesday, Kw_thursday, Kw_friday,
             Kw_saturday, Kw_sunday>>

(***************************************************************************)
(* Dates: datetime.date ordinals, strftime and parsing.                    *)
(***************************************************************************)
IsLeap(y) == y % 4 = 0 /\ (y % 100 # 0 \/ y % 400 = 0)

DaysInMonth(y, m) ==
  IF m = 2 THEN (IF IsLeap(y) THEN 29 ELSE 28)
  ELSE IF m \in {4, 6, 9, 11} THEN 30 ELSE 31

DaysBeforeMonth(y, m) ==
  <<0, 31, 59, 90, 120, 151, 181, 212, 243, 273, 304, 334>>[m]
  + (IF m > 2 /\ IsLeap(y) THEN 1 ELSE 0)

DaysBeforeYear(y) ==
  (y - 1) * 365 + ((y - 1) \div 4) - ((y - 1) \div 100) + ((y - 1) \div 400)

\* date(y, m, d).toordinal()
Ymd2Ord(ymd) == DaysBeforeYear(ymd[1]) + DaysBeforeMonth(ymd[1], ymd[2]) + ymd[3]

\* date.fromordinal(n), as <<year, month, day>>: what strftime("%Y-%m-%d")
\* prints
Ord2Ymd(ord) ==
  LET n0   == ord - 1
      n400 == n0 \div 146097
      r400 == n0 % 146097
      n100 == r400 \div 36524
      r100 == r400 % 36524
      n4   == r100 \div 1461
      r4   == r100 % 1461
      n1   == r4 \div 365
      n    == r4 % 365
      year == n400 * 400 + 1 + n100 * 100 + n4 * 4 + n1
  IN IF n1 = 4 \/ n100 = 4 THEN <<year - 1, 12, 31>>
     ELSE LET leap == n1 = 3 /\ (n4 # 24 \/ n100 = 3)
              m0   == (n + 50) \div 32
              p0   == <<0, 31, 59, 90, 120, 151, 181, 212, 243, 273, 304, 334>>[m0]
                      + (IF m0 > 2 /\ leap THEN 1 ELSE 0)
              month == IF p0 > n THEN m0 - 1 ELSE m0
              prec  == <<0, 31, 59, 90, 120, 151, 181, 212, 243, 273, 304, 334>>[month]
                       + (IF month > 2 /\ leap THEN 1 ELSE 0)
          IN <<year, month, n - prec + 1>>

\* datetime.weekday(): Monday is 0
Weekday(dt) == (dt.ord + 6) % 7

\* dt + timedelta(days = n): wall-clock arithmetic on an aware datetime
PlusDays(dt, n) == [ord |-> dt.ord + n, sec |-> dt.sec]

\* dt.replace(hour = h, minute = m, second = s)
ReplaceTime(dt, h, m, s) == [ord |-> dt.ord, sec |-> h * 3600 + m * 60 + s]

\* dt.strftime("%Y-%m-%d")
StrfDate(dt) == Ord2Ymd(dt.ord)

\* dt.strftime("%H:%M:%S")
StrfTime(dt) == <<dt.sec \div 3600, (dt.sec % 3600) \div 60, dt.sec % 60>>

\* a date string that datetime accepts
ValidYmd(ymd) ==
  /\ ymd[1] \in 1..9999
  /\ ymd[2] \in 1..12
  /\ ymd[3] \in 1..DaysInMonth(ymd[1], ymd[2])

\* "YYYY-MM-DD" strings compare as their fields do, most significant first
DateStrLess(a, b) ==
  \/ a[1] < b[1]
  \/ a[1] = b[1] /\ a[2] < b[2]
  \/ a[1] = b[1] /\ a[2] = b[2] /\ a[3] < b[3]

(***************************************************************************)
(* parse_time_expression (agent.py 59-131).                                *)
(***************************************************************************)
\* line 91: days from the anchor to the Sunday that ends "this week"
DaysUntilSunday(wd) == 6 - wd

\* line 95: days from the anchor to the Monday that starts "next week"
DaysUntilMonday(wd) == (7 - wd) % 7

\* lines 101-108: days from the anchor to the Saturday of the weekend
DaysUntilSaturday(wd, hasNext) ==
  IF hasNext THEN ((5 - wd) % 7) + 7 ELSE (5 - wd) % 7

\* the same with the week that "next" adds forgotten
DaysUntilWeekdayNoNext(day_num, wd, hasNext) == (day_num - wd) % 7

\* lines 119-121: days from the anchor to the named weekday
DaysUntilWeekday(day_num, wd, hasNext) ==
  ((day_num - wd) % 7) + (IF hasNext THEN 7 ELSE 0)

\* line 112: any(day in expression for day in [...])
NamesWeekday(e) == \E i \in 1..Len(day_map) : Contains(day_map[i], e)

\* lines 117-118, 125: the first entry of day_map found in the expression
FirstDayNum(e) ==
  (CHOOSE i \in 1..Len(day_map) :
      /\ Contains(day_map[i], e)
      /\ \A j \in 1..(i - 1) : ~Contains(day_map[j], e)) - 1

\* lines 127-131: both datetimes formatted as date strings
FormatWindow(s, e) ==
  [start_date |-> StrfDate(s),
   end_date   |-> IF IsNone(e) THEN None ELSE Some(StrfDate(Val(e)))]

\* parse_time_expression, with the clock it reads at line 69 as `clock`
parse_time_expression(expression, clock) ==
  LET e  == Strip(Lower(expression))
      wd == Weekday(clock)
      eod(dt) == ReplaceTime(dt, 23, 59, 59)
      sod(dt) == ReplaceTime(dt, 0, 0, 0)
  IN IF Contains(Kw_tonight, e) THEN
       FormatWindow(clock, Some(eod(clock)))
     ELSE IF Contains(Kw_today, e) THEN
       FormatWindow(clock, Some(eod(clock)))
     ELSE IF Contains(Kw_tomorrow, e) THEN
       LET s == sod(PlusDays(clock, 1)) IN FormatWindow(s, Some(eod(s)))
     ELSE IF Contains(Kw_this_week, e) THEN
       FormatWindow(clock, Some(eod(PlusDays(clock, DaysUntilSunday(wd)))))
     ELSE IF Contains(Kw_next_week, e) THEN
       LET s == sod(PlusDays(clock, DaysUntilMonday(wd)))
       IN FormatWindow(s, Some(eod(PlusDays(s, 6))))
     ELSE IF Contains(Kw_weekend, e) THEN
       LET s == sod(PlusDays(clock, DaysUntilSaturday(wd, Contains(Kw_next, e))))
       IN FormatWindow(s, Some(eod(PlusDays(s, 1))))
     ELSE IF NamesWeekday(e) THEN
       LET s == sod(PlusDays(clock,
                     DaysUntilWeekday(FirstDayNum(e), wd, Contains(Kw_next, e))))
       IN FormatWindow(s, Some(eod(s)))
     ELSE FormatWindow(clock, None)

(***************************************************************************)
(* format_event_category (agent.py 133-170). An emoji is written as its    *)
(* name; the string "<emoji> <text>" is the record [emoji, text].          *)
(***************************************************************************)
\* str.upper() on one character
UpperChar(c) ==
  IF \E i \in 1..Len(LowerChars) : LowerChars[i] = c
  THEN UpperChars[CHOOSE i \in 1..Len(LowerChars) : LowerChars[i] = c]
  ELSE c

\* a character that has a case
IsCased(c) ==
  \E i \in 1..Len(LowerChars) : LowerChars[i] = c \/ UpperChars[i] = c

\* str.title(): a cased character is upper after an uncased one (or at the
\* start) and lower after a cased one
Title(s) ==
  [i \in 1..Len(s) |->
     IF ~IsCased(s[i]) THEN s[i]
     ELSE IF i = 1 \/ ~IsCased(s[i - 1]) THEN UpperChar(s[i])
     ELSE LowerChar(s[i])]

\* lines 142-160: the dict, in insertion order
category_emojis ==
  <<[key |-> <<"m","u","s","i","c">>, emoji |-> "notes"],
    [key |-> <<"s","p","o","r","t","s">>, emoji |-> "trophy"],
    [key |-> <<"a","r","t","s">>, emoji |-> "palette"],
    [key |-> <<"t","h","e","a","t","r","e">>, emoji |-> "masks"],
    [key |-> <<"f","a","m","i","l","y">>, emoji |-> "family"],
    [key |-> <<"c","o","m","e","d","y">>, emoji |-> "joy"],
    [key |-> <<"m","a","g","i","c">>, emoji |-> "sparkles"],
    [key |-> <<"f","o","o","d">>, emoji |-> "plate"],
    [key |-> <<"e","x","h","i","b","i","t","i","o","n">>, emoji |-> "frame"],
    [key |-> <<"e","x","p","e","r","i","e","n","c","e">>, emoji |-> "dart"],
    [key |-> <<"m","o","t","o","r","s","p","o","r","t","s">>, emoji |-> "racing_car"],
    [key |-> <<"r","a","c","i","n","g">>, emoji |-> "chequered_flag"],
    [key |-> <<"a","q","u","a","r","i","u","m">>, emoji |-> "fish"],
    [key |-> <<"i","m","m","e","r","s","i","v","e">>, emoji |-> "star"],
    [key |-> <<"b","a","t","t","l","e">>, emoji |-> "swords"],
    [key |-> <<"b","r","u","n","c","h">>, emoji |-> "egg"],
    [key |-> <<"d","e","f","a","u","l","t">>, emoji |-> "circus_tent"]>>

\* category_emojis['default']
DefaultEmoji ==
  category_emojis[CHOOSE i \in 1..Len(category_emojis) :
                    category_emojis[i].key = <<"d","e","f","a","u","l","t">>].emoji

\* lines 165-168: the keys contained in the text, by position in the dict
MatchingKeys(text) ==
  {i \in 1..Len(category_emojis) : Contains(category_emojis[i].key, text)}

\* the emoji of the first key of the dict that the text contains
EmojiFor(text) ==
  LET hits == MatchingKeys(text)
  IN IF hits = {} THEN DefaultEmoji
     ELSE category_emojis[CHOOSE i \in hits : \A j \in hits : i <= j].emoji

\* the keys matched against the category as given, without lowering it
format_event_categoryCaseSensitive(category) ==
  [emoji |-> EmojiFor(category), text |-> Title(Lower(category))]

\* lines 133-170
format_event_category(category) ==
  [emoji |-> EmojiFor(Lower(category)), text |-> Title(Lower(category))]

\* segment names of the event source: 'Event' is the code's default
Cat_Event == <<"E","v","e","n","t">>
Cat_Music == <<"M","u","s","i","c">>
Cat_MUSIC == <<"M","U","S","I","C">>
Cat_Live_Music_Festival == <<"L","i","v","e"," ","M","u","s","i","c"," ","F","e","s","t","i","v","a","l">>
Cat_Motorsports == <<"M","o","t","o","r","s","p","o","r","t","s">>
Cat_Arts_Theatre == <<"A","r","t","s"," ","&"," ","T","h","e","a","t","r","e">>
Cat_Film == <<"F","i","l","m">>

SegmentNames ==
  {Cat_Event, Cat_Music, Cat_MUSIC, Cat_Live_Music_Festival, Cat_Motorsports,
   Cat_Arts_Theatre, Cat_Film}

\* format_event_category on the segment names of the model
CategoryLabel == [c \in SegmentNames |-> format_event_category(c)]

(***************************************************************************)
(* get_events (agent.py 283-476).                                          *)
(***************************************************************************)
DefaultSize == 20

\* truth value of an Optional string: None and "" are false
Truthy(o) == IsSome(o) /\ Val(o) # <<>>

\* Python's `a or b`
PyOr(a, b) == IF Truthy(a) THEN a ELSE b

\* the parameter `size` as bound at the call: the default when not given
SizeOf(a) == IF IsNone(a.size) THEN DefaultSize ELSE Val(a.size)

\* lines 302-306: the window after the time expression has been parsed
ResolvedStart(te, sd, clock) ==
  IF Truthy(te)
  THEN PyOr(Some(parse_time_expression(Val(te), clock).start_date), sd)
  ELSE sd

ResolvedEnd(te, ed, clock) ==
  IF Truthy(te)
  THEN PyOr(parse_time_expression(Val(te), clock).end_date, ed)
  ELSE ed

\* lines 326-330: params['startDateTime'], "<date>T<time>Z"
StartDateTime(sd, cur) ==
  IF Truthy(sd)
  THEN [date |-> Val(sd), time |-> StrfTime(cur)]
  ELSE [date |-> StrfDate(cur), time |-> StrfTime(cur)]

\* lines 332-334: params['endDateTime'], absent without an end date
EndDateTime(ed) ==
  IF Truthy(ed) THEN Some([date |-> Val(ed), time |-> <<23, 59, 59>>]) ELSE None

\* lines 312-319: params['size']
SizeParam(size) == size

\* naive.astimezone(venue zone): the naive value is read as host-local time
AsVenueTime(dt, shift) ==
  LET total == dt.sec - shift
  IN [ord |-> dt.ord + (IF total < 0 THEN -1 ELSE IF total >= 86400 THEN 1 ELSE 0),
      sec |-> (total + 86400) % 86400]

\* datetime.now().date(): today on the host's clock
HostToday(clock, shift) ==
  LET total == clock.sec + shift
  IN clock.ord + (IF total < 0 THEN -1 ELSE IF total >= 86400 THEN 1 ELSE 0)

\* dt.strftime("%I:%M %p")
Strf12h(dt) ==
  LET h == dt.sec \div 3600
  IN <<IF h % 12 = 0 THEN 12 ELSE h % 12, (dt.sec % 3600) \div 60,
       IF h < 12 THEN "AM" ELSE "PM">>

\* lines 53-56: "today", "tomorrow", "yesterday" or None, by the host's clock
RelativeDay(dt, clock, shift) ==
  IF dt.ord = HostToday(clock, shift) THEN Some("today")
  ELSE IF dt.ord = HostToday(clock, shift) + 1 THEN Some("tomorrow")
  ELSE IF dt.ord = HostToday(clock, shift) - 1 THEN Some("yesterday")
  ELSE None

\* format_datetime (lines 32-57), called when the host's clock shows `clock`;
\* "datetime", "day", "month" and "year" repeat the date and the time, and
\* the offset in "iso" is the venue's in every record
format_datetime(dt, clock, shift) ==
  [iso          |-> [date |-> StrfDate(dt), time |-> StrfTime(dt)],
   date         |-> StrfDate(dt),
   time         |-> Strf12h(dt),
   day_name     |-> Weekday(dt),
   hour         |-> dt.sec \div 3600,
   is_today     |-> dt.ord = HostToday(clock, shift),
   relative_day |-> RelativeDay(dt, clock, shift)]

\* r.get('min', 0), r.get('max', 0)
TierMin(r) == IF IsSome(r.min) THEN Val(r.min) ELSE 0

TierMax(r) == IF IsSome(r.max) THEN Val(r.max) ELSE 0

\* lines 380-381: min(...) and max(...) over the tiers of a non-empty list
MinPrice(ranges) ==
  CHOOSE m \in {TierMin(ranges[k]) : k \in 1..Len(ranges)} :
    \A k \in 1..Len(ranges) : m <= TierMin(ranges[k])

MaxPrice(ranges) ==
  CHOOSE m \in {TierMax(ranges[k]) : k \in 1..Len(ranges)} :
    \A k \in 1..Len(ranges) : m >= TierMax(ranges[k])

\* lines 377-385: price_range; min() of an empty list raises
PriceRaises(raw) == IsSome(raw.priceRanges) /\ Val(raw.priceRanges) = <<>>

price_range(raw) ==
  IF IsSome(raw.priceRanges)
  THEN Some([min |-> MinPrice(Val(raw.priceRanges)),
             max |-> MaxPrice(Val(raw.priceRanges))])
  ELSE None

\* lines 383: price_info, "" or the text that carries both prices
price_info(raw) ==
  IF IsSome(raw.priceRanges)
  THEN <<MinPrice(Val(raw.priceRanges)), MaxPrice(Val(raw.priceRanges))>>
  ELSE <<>>

\* line 415: [{}][0] when there is no list; [0] of an empty list raises
CategoryRaises(raw) ==
  IsSome(raw.classifications) /\ Val(raw.classifications) = <<>>

\* line 415: the segment name of the first classification, 'Event' without
SegmentName(raw) ==
  IF IsSome(raw.classifications) /\ IsSome(Val(raw.classifications)[1])
  THEN Val(Val(raw.classifications)[1])
  ELSE Cat_Event

\* lines 359-421: one raw record, normalised or skipped (None), when the
\* host's clock shows `clock`
Normalize(raw, i, clock, shift) ==
  IF /\ IsSome(raw.localDate)
     /\ ValidYmd(Val(raw.localDate))
     /\ ~PriceRaises(raw)
     /\ IsSome(raw.name)
     /\ ~CategoryRaises(raw)
  THEN LET event_time == [ord |-> Ymd2Ord(Val(raw.localDate)),
                          sec |-> IF IsNone(raw.localTime) THEN 0
                                  ELSE Val(raw.localTime)]
           vegas_time == AsVenueTime(event_time, shift)
       IN Some([src |-> i, name |-> Val(raw.name),
                datetime |-> format_datetime(vegas_time, clock, shift),
                price_range |-> price_range(raw),
                price_info |-> price_info(raw),
                type |-> CategoryLabel[SegmentName(raw)]])
  ELSE None

RECURSIVE NormalizeFrom(_, _, _, _)
\* lines 357-421: the loop over the raw records, from index i on
NormalizeFrom(raws, i, clock, shift) ==
  IF i > Len(raws) THEN <<>>
  ELSE LET r == Normalize(raws[i], i, clock, shift)
       IN (IF IsSome(r) THEN <<Val(r)>> ELSE <<>>)
          \o NormalizeFrom(raws, i + 1, clock, shift)

\* x put into a list sorted by date, after the entries that are not later
InsertByDate(sorted, x) ==
  LET before == {k \in 1..Len(sorted) :
                   ~DateStrLess(x.datetime.date, sorted[k].datetime.date)}
      n == Cardinality(before)
  IN SubSeq(sorted, 1, n) \o <<x>> \o SubSeq(sorted, n + 1, Len(sorted))

RECURSIVE SortPrefix(_, _)
SortPrefix(evs, n) ==
  IF n = 0 THEN <<>> ELSE InsertByDate(SortPrefix(evs, n - 1), evs[n])

\* the list left in the order of the source
SortUnsorted(evs) == evs

\* line 424: events.sort(key = date string), a stable sort
SortByDate(evs) == SortPrefix(evs, Len(evs))

\* lines 427-436: which intro the report gets; "crash" when strptime raises
IntroKind(te, sd, ed, clock, shift) ==
  IF Truthy(te) THEN "phrase"
  ELSE IF sd = ed THEN
    IF IsNone(sd) THEN "crash"
    ELSE IF Ymd2Ord(Val(sd)) = HostToday(clock, shift) THEN "today" ELSE "day"
  ELSE "generic"

\* seq[:n] for n # 0
PySliceTo(s, n) ==
  IF n > 0 THEN SubSeq(s, 1, IF n < Len(s) THEN n ELSE Len(s))
  ELSE SubSeq(s, 1, IF Len(s) + n > 0 THEN Len(s) + n ELSE 0)

\* line 467: events[:size] if size else events
Capped(evs, size) == IF size # 0 THEN PySliceTo(evs, size) ELSE evs

\* lines 357-424: the local `events` once the loop and the sort are done
EventsOf(resp, clock, shift) ==
  IF resp.kind = "events"
  THEN SortByDate(NormalizeFrom(resp.events, 1, clock, shift))
  ELSE <<>>

\* lines 427-436: the intro, with the phrase or the day it quotes
Intro(te, sd, ed, clock, shift) ==
  LET kind == IntroKind(te, sd, ed, clock, shift)
  IN [kind   |-> kind,
      phrase |-> IF kind = "phrase" THEN te ELSE None,
      day    |-> IF kind = "day" THEN sd ELSE None]

RECURSIVE TypesInOrder(_, _)
\* lines 440-446: the keys of event_types, in the order they are first seen
TypesInOrder(evs, n) ==
  IF n = 0 THEN <<>>
  ELSE LET before == TypesInOrder(evs, n - 1)
       IN IF \E k \in 1..Len(before) : before[k] = evs[n].type THEN before
          ELSE Append(before, evs[n].type)

\* lines 451-463: what the report shows of one event
Rendered(e) ==
  [src |-> e.src, name |-> e.name, when |-> e.datetime.iso,
   price_info |-> e.price_info]

\* lines 440-463: the groups of the report and the events under each
Groups(evs) ==
  LET types == TypesInOrder(evs, Len(evs))
  IN [k \in 1..Len(types) |->
        [type   |-> types[k],
         events |-> LET members == SelectSeq(evs, LAMBDA e : e.type = types[k])
                    IN [m \in 1..Len(members) |-> Rendered(members[m])]]]

\* lines 351-355: the result without a list of events in the answer
NoEventsResult ==
  [status |-> "success", events |-> <<>>,
   report |-> [kind |-> "no_events", intro |-> None, groups |-> <<>>]]

\* the same with the status of the answer never looked at: what is not a
\* list of events is taken for an answer without events
ResultFromUnchecked(resp, sorted, te, sd, ed, size, clock, shift) ==
  IF resp.kind # "events" THEN NoEventsResult
  ELSE IF IntroKind(te, sd, ed, clock, shift) = "crash" THEN
    [status |-> "error", error_message |-> "Error getting events data"]
  ELSE
    [status |-> "success",
     events |-> Capped(sorted, size),
     report |-> [kind   |-> "listing",
                 intro  |-> Some(Intro(te, sd, ed, clock, shift)),
                 groups |-> Groups(sorted)]]

\* lines 343-476: the dict get_events returns for an answer of the source,
\* `sorted` being the local `events` after the sort
ResultFrom(resp, sorted, te, sd, ed, size, clock, shift) ==
  IF resp.kind = "http_error" THEN
    [status |-> "error", error_message |-> "Ticketmaster API error"]
  ELSE IF resp.kind = "bad_json" THEN
    [status |-> "error", error_message |-> "Error getting events data"]
  ELSE IF resp.kind = "no_events" THEN NoEventsResult
  ELSE IF IntroKind(te, sd, ed, clock, shift) = "crash" THEN
    [status |-> "error", error_message |-> "Error getting events data"]
  ELSE
    [status |-> "success",
     events |-> Capped(sorted, size),
     report |-> [kind   |-> "listing",
                 intro  |-> Some(Intro(te, sd, ed, clock, shift)),
                 groups |-> Groups(sorted)]]

\* lines 343-476: the dict get_events returns for an answer of the source
ResultOf(resp, te, sd, ed, size, clock, shift) ==
  ResultFrom(resp, EventsOf(resp, clock, shift), te, sd, ed, size, clock, shift)

(***************************************************************************)
(* Inputs.                                                                 *)
(***************************************************************************)
P_this_weekend == <<"t","h","i","s"," ","w","e","e","k","e","n","d">>
P_weekend == <<"w","e","e","k","e","n","d">>
P_Weekend_padded == <<" ","W","e","e","k","e","n","d"," ">>
P_next_weekend == <<"n","e","x","t"," ","w","e","e","k","e","n","d">>
P_next_week == <<"n","e","x","t"," ","w","e","e","k">>
P_this_week == <<"t","h","i","s"," ","w","e","e","k">>
P_friday == <<"f","r","i","d","a","y">>
P_next_friday == <<"n","e","x","t"," ","f","r","i","d","a","y">>
P_Sunday == <<"S","u","n","d","a","y">>
P_monday == <<"m","o","n","d","a","y">>
P_sat_or_tue == <<"s","a","t","u","r","d","a","y"," ","o","r"," ","t","u","e","s","d","a","y">>
P_tonight == <<"t","o","n","i","g","h","t">>
P_today == <<"t","o","d","a","y">>
P_tomorrow == <<"t","o","m","o","r","r","o","w">>
P_soon == <<"s","o","o","n">>

ResolverPhrases ==
  {P_this_weekend, P_weekend, P_Weekend_padded, P_next_weekend, P_next_week,
   P_this_week, P_friday, P_next_friday, P_Sunday, P_monday, P_sat_or_tue,
   P_tonight, P_today, P_tomorrow, P_soon}

PipelinePhrases == {P_soon, P_tomorrow}

\* Monday 2024-06-10
BaseOrd == Ymd2Ord(<<2024, 6, 10>>)

\* noon, and the last second of the day
ClockSecs == {43200, 86399}

ResolverAnchors ==
  {[ord |-> BaseOrd + d, sec |-> s] : d \in 0..(NumAnchorDays - 1), s \in ClockSecs}

\* Wednesday 2024-06-12 and Thursday 2024-06-13
PipelineAnchors ==
  {[ord |-> BaseOrd + 2 + d, sec |-> s] : d \in 0..1, s \in ClockSecs}

\* the host runs in the venue's timezone, or in UTC (7 hours ahead in June)
HostShifts == {0, 25200}

ExplicitStarts == {None, Some(<<2024, 6, 12>>), Some(<<2024, 6, 14>>)}
ExplicitEnds == {None, Some(<<2024, 6, 14>>)}

SizeArgs == {None} \cup {Some(n) : n \in {-1, 0, 1, 101}}

\* a raw record with a name, a local date, a local time, and neither price
\* tiers nor classifications
Raw(name, date, time) ==
  [name |-> name, localDate |-> date, localTime |-> time,
   priceRanges |-> None, classifications |-> None]

\* raw records of the event source: three well formed (two on the same local
\* date, one of them without a local time), one without a name, one without
\* a local date, one with a date that does not parse
RawPool ==
  {Raw(Some("A"), Some(<<2024, 6, 15>>), Some(72000)),
   Raw(Some("B"), Some(<<2024, 6, 14>>), Some(72000)),
   Raw(Some("C"), Some(<<2024, 6, 14>>), None),
   Raw(None,      Some(<<2024, 6, 14>>), Some(72000)),
   Raw(Some("E"), None,                  Some(72000)),
   Raw(Some("F"), Some(<<2024, 2, 30>>), Some(72000))}

\* answers of up to MaxBatch distinct records of a pool, in any order
BatchesOf(pool) ==
  {b \in UNION {[1..n -> pool] : n \in 0..MaxBatch} :
     \A i, j \in 1..Len(b) : i # j => b[i] # b[j]}

Batches == BatchesOf(RawPool)

\* one price tier; either bound may be missing
Tier(min, max) == [min |-> min, max |-> max]

\* a well-formed raw record of 2024-06-14 20:00 with price tiers (None: no
\* 'priceRanges' key) and classifications (None: no 'classifications' key;
\* an element is the segment name, None when the segment has none)
Priced(name, tiers, classes) ==
  [name |-> Some(name), localDate |-> Some(<<2024, 6, 14>>),
   localTime |-> Some(72000), priceRanges |-> tiers, classifications |-> classes]

\* raw records that differ in category and price tiers
RecordPool ==
  {Priced("M1", Some(<<Tier(Some(40), Some(120)), Tier(Some(30), Some(200))>>),
          Some(<<Some(Cat_Music)>>)),
   Priced("M2", None, Some(<<Some(Cat_Live_Music_Festival)>>)),
   Priced("M3", None, Some(<<Some(Cat_MUSIC)>>)),
   Priced("R4", Some(<<Tier(Some(50), None)>>), Some(<<Some(Cat_Motorsports)>>)),
   Priced("F5", Some(<<Tier(None, Some(80))>>), Some(<<Some(Cat_Film)>>)),
   Priced("E6", Some(<<Tier(Some(25), Some(25))>>), Some(<<None>>)),
   Priced("X7", None, Some(<<>>)),
   Priced("A8", Some(<<>>), Some(<<Some(Cat_Arts_Theatre)>>))}

RecordResponses == {[kind |-> "events", events |-> b] : b \in BatchesOf(RecordPool)}

Responses ==
  {[kind |-> k, events |-> <<>>] : k \in {"http_error", "bad_json", "no_events"}}
  \cup {[kind |-> "events", events |-> b] : b \in Batches}

(***************************************************************************)
(* The state machine: one invocation of get_events.                        *)
(***************************************************************************)
InitWith(anchors, keys) ==
  /\ now \in anchors
  /\ TM_API_KEY \in keys
  /\ net_calls = 0
  /\ cancelled = FALSE
  /\ normalized = <<>>
  /\ hostShift \in HostShifts
  /\ ticks = 0
  /\ pc = "idle"
  /\ args = [time_expression |-> None, start_date |-> None, end_date |-> None,
             size |-> None]
  /\ start_date = None
  /\ end_date = None
  /\ current_time = None
  /\ params = None
  /\ response = None
  /\ events = <<>>
  /\ result = None

Init == InitWith(PipelineAnchors, {Some("key")})

InitResolver == InitWith(ResolverAnchors, {Some("key")}) /\ hostShift = 0

\* lines 283-306: the call, up to the parsed time expression
CallWith(te, sd, ed, sz) ==
  /\ pc = "idle"
  /\ args' = [time_expression |-> te, start_date |-> sd, end_date |-> ed,
              size |-> sz]
  /\ start_date' = ResolvedStart(te, sd, now)
  /\ end_date' = ResolvedEnd(te, ed, now)
  /\ pc' = "build"
  /\ UNCHANGED <<now, hostShift, ticks, current_time, params, response, events,
                 result, TM_API_KEY, net_calls, cancelled, normalized>>

Call ==
  \E te \in {None} \cup {Some(p) : p \in PipelinePhrases},
     sd \in ExplicitStarts, ed \in ExplicitEnds, sz \in SizeArgs :
    CallWith(te, sd, ed, sz)

\* the resolver alone: a phrase, and nothing else given
ResolveCall == \E p \in ResolverPhrases : CallWith(Some(p), None, None, None)

\* lines 308-341: the clock is read, the request is built and sent
BuildRequest ==
  /\ pc = "build"
  /\ current_time' = Some(now)
  /\ params' = Some([apikey        |-> TM_API_KEY,
                     size          |-> SizeParam(SizeOf(args)),
                     startDateTime |-> StartDateTime(start_date, now),
                     endDateTime   |-> EndDateTime(end_date)])
  /\ net_calls' = net_calls + 1
  /\ pc' = "waiting"
  /\ UNCHANGED <<now, hostShift, ticks, args, start_date, end_date, response, events,
                 result, TM_API_KEY, cancelled, normalized>>

\* lines 341-476: the source answers; the answer is processed and returned
ReceiveFrom(responses) ==
  \E resp \in responses :
    /\ pc = "waiting"
    /\ response' = Some(resp)
    /\ events' = EventsOf(resp, now, hostShift)
    /\ result' = Some(ResultFrom(resp, events', args.time_expression, start_date,
                                 end_date, SizeOf(args), now, hostShift))
    /\ pc' = "done"
    /\ UNCHANGED <<now, hostShift, ticks, args, start_date, end_date, current_time,
                   params, TM_API_KEY, net_calls, cancelled, normalized>>

Receive == ReceiveFrom(Responses)

\* the wall clock advances by a second while the invocation is under way
Tick ==
  /\ pc \in {"build", "waiting"}
  /\ ticks < MaxTicks
  /\ ticks' = ticks + 1
  /\ now' = IF now.sec + 1 >= 86400 THEN [ord |-> now.ord + 1, sec |-> 0]
            ELSE [ord |-> now.ord, sec |-> now.sec + 1]
  /\ UNCHANGED <<hostShift, pc, args, start_date, end_date, current_time, params,
                 response, events, result, TM_API_KEY, net_calls, cancelled,
                 normalized>>

Next == Call \/ BuildRequest \/ Receive \/ Tick

Spec == Init /\ [][Next]_vars

NextResolver == ResolveCall

\* records of every category and price shape, asked for with a phrase
CallRecords == \E sz \in {None, Some(1)} : CallWith(Some(P_soon), None, None, sz)

ReceiveRecords == ReceiveFrom(RecordResponses)

NextRecords == CallRecords \/ BuildRequest \/ ReceiveRecords \/ Tick

SpecRecords == Init /\ [][NextRecords]_vars

\* line 22: os.getenv gives None when the variable is not set; nothing at
\* import or at startup (main.py 54-62 looks at the database variables
\* only) tests the key, so the process is up with or without it
InitConfig == InitWith(PipelineAnchors, {None, Some("key")})

SpecConfig == InitConfig /\ [][NextRecords]_vars

\* the caller cancels, or times out, the invocation while the call of the
\* network is outstanding: get_events is inside requests.get (line 341: no
\* timeout, no await, no handler for a cancellation), so nothing of the
\* invocation changes
Cancel ==
  /\ pc = "waiting"
  /\ ~cancelled
  /\ cancelled' = TRUE
  /\ UNCHANGED <<now, hostShift, ticks, pc, args, start_date, end_date, current_time,
                 params, response, events, result, TM_API_KEY, net_calls, normalized>>

NextCancel == CallRecords \/ BuildRequest \/ Cancel \/ Receive

\* an invocation under a caller that may cancel it: the code, once called,
\* runs on to its call of the network; whether the source ever answers is
\* not the code's to decide
SpecCancel == Init /\ [][NextCancel]_vars /\ WF_vars(BuildRequest)

SpecResolver == InitResolver /\ [][NextResolver]_vars

\* lines 359-417 on their own: one raw record is normalised, and the same
\* record once more
NormalizeRecord ==
  \E raw \in RawPool \cup RecordPool :
    /\ pc = "idle"
    /\ Len(normalized) < 2
    /\ normalized # <<>> => normalized[1].raw = raw
    /\ normalized' = Append(normalized,
                            [raw |-> raw, at |-> now,
                             out |-> Normalize(raw, 1, now, hostShift)])
    /\ UNCHANGED <<now, hostShift, ticks, pc, args, start_date, end_date, current_time,
                   params, response, events, result, TM_API_KEY, net_calls, cancelled>>

\* the wall clock advances by a second between the two normalisations
Elapse ==
  /\ Len(normalized) = 1
  /\ ticks < MaxTicks
  /\ ticks' = ticks + 1
  /\ now' = IF now.sec + 1 >= 86400 THEN [ord |-> now.ord + 1, sec |-> 0]
            ELSE [ord |-> now.ord, sec |-> now.sec + 1]
  /\ UNCHANGED <<hostShift, pc, args, start_date, end_date, current_time, params,
                 response, events, result, TM_API_KEY, net_calls, cancelled,
                 normalized>>

NextNormalize == NormalizeRecord \/ Elapse

SpecNormalize == Init /\ [][NextNormalize]_vars

(***************************************************************************)
(* Properties of the resolver (checked under SpecResolver, where the       *)
(* anchor is `now` and the window is start_date, end_date).                *)
(***************************************************************************)
\* the phrase of the call, as the resolver matches it (case-insensitively)
ThePhrase == Lower(Val(args.time_expression))

Resolved == pc # "idle" /\ IsSome(args.time_expression)

DayOfWeek(ord) == (ord + 6) % 7

StartOrd == Ymd2Ord(Val(start_date))

EndOrd == Ymd2Ord(Val(end_date))

HigherPriorityKeywords ==
  {Kw_tonight, Kw_today, Kw_tomorrow, Kw_this_week, Kw_next_week, Kw_weekend}

\* C1: for every anchor and every phrase that contains "weekend" and not
\* "next" ("this weekend" included), start_date is a Saturday and end_date
\* is the Sunday one day after it.
C1_WeekendIsSaturdaySunday ==
  (Resolved /\ Contains(Kw_weekend, ThePhrase) /\ ~Contains(Kw_next, ThePhrase))
  => /\ IsSome(start_date) /\ IsSome(end_date)
     /\ DayOfWeek(StartOrd) = 5
     /\ EndOrd = StartOrd + 1

\* C2: for every anchor, a phrase containing "next week" resolves to
\* start_date = the first Monday strictly after the anchor's date (7 days
\* later when the anchor is a Monday) and end_date = start_date + 6 days.
C2_NextWeekStartsAfterAnchor ==
  (Resolved /\ Contains(Kw_next_week, ThePhrase))
  => /\ IsSome(start_date) /\ IsSome(end_date)
     /\ DayOfWeek(StartOrd) = 0
     /\ StartOrd - now.ord \in 1..7
     /\ EndOrd = StartOrd + 6

\* C3: when the anchor is a Saturday or a Sunday, a phrase containing
\* "weekend" without "next" resolves to the weekend that contains the
\* anchor: a Saturday start, the next day as end, the anchor within them.
\* (Stated for the phrases the "weekend" rule itself resolves, those
\* without "this week", so that what is shown is the rule's own result.)
C3_WeekendContainsAnchor ==
  (/\ Resolved
   /\ Contains(Kw_weekend, ThePhrase)
   /\ ~Contains(Kw_next, ThePhrase)
   /\ ~Contains(Kw_this_week, ThePhrase)
   /\ DayOfWeek(now.ord) \in {5, 6})
  => /\ IsSome(start_date) /\ IsSome(end_date)
     /\ DayOfWeek(StartOrd) = 5
     /\ EndOrd = StartOrd + 1
     /\ StartOrd <= now.ord /\ now.ord <= EndOrd

\* the weekdays (0 = Monday) whose names the phrase contains
NamedWeekdays == {d \in 0..6 : Contains(day_map[d + 1], ThePhrase)}

WeekdayPhrase ==
  /\ Resolved
  /\ NamedWeekdays # {}
  /\ \A k \in HigherPriorityKeywords : ~Contains(k, ThePhrase)

\* C4: for every anchor and every phrase with a weekday name and no
\* higher-priority keyword, start_date = end_date = a day that falls on the
\* named weekday, 0..6 days after the anchor's date without "next" and
\* 7..13 days after it with "next"; from Wednesday 2024-06-12, "friday" is
\* 2024-06-14 and "next friday" is 2024-06-21.
C4_WeekdayOffset ==
  WeekdayPhrase
  => /\ IsSome(start_date) /\ IsSome(end_date)
     /\ start_date = end_date
     /\ ValidYmd(Val(start_date))
     /\ DayOfWeek(StartOrd) \in NamedWeekdays
     /\ StartOrd - now.ord \in
          (IF Contains(Kw_next, ThePhrase) THEN 7..13 ELSE 0..6)
     /\ (now.ord = Ymd2Ord(<<2024, 6, 12>>) /\ ThePhrase = P_friday)
          => start_date = Some(<<2024, 6, 14>>)
     /\ (now.ord = Ymd2Ord(<<2024, 6, 12>>) /\ ThePhrase = P_next_friday)
          => start_date = Some(<<2024, 6, 21>>)

\* C4 witness: "next friday" asked on a Saturday is resolved to the Friday
\* 13 days ahead
C4_Witness ==
  /\ WeekdayPhrase
  /\ ThePhrase = P_next_friday
  /\ DayOfWeek(now.ord) = 5
  /\ StartOrd - now.ord = 13
  /\ start_date = end_date

(***************************************************************************)
(* Properties of get_events (checked under Spec).                          *)
(***************************************************************************)
Requested == IsSome(params)

Returned == pc = "done"

\* seconds since Monday 2024-06-10 00:00:00 of a "<date>T<time>" pair, read
\* as a wall-clock value
MomentOf(stamp) ==
  (Ymd2Ord(stamp.date) - BaseOrd) * 86400
  + stamp.time[1] * 3600 + stamp.time[2] * 60 + stamp.time[3]

ClockMoment(dt) == (dt.ord - BaseOrd) * 86400 + dt.sec

\* the phrase of the call matches no rule of the resolver
NoRuleMatches ==
  /\ IsSome(args.time_expression)
  /\ \A k \in HigherPriorityKeywords : ~Contains(k, ThePhrase)
  /\ NamedWeekdays = {}

\* C5: when the time expression matches no rule and the caller gives
\* start_date and/or end_date, the request carries the caller's dates; the
\* resolver's fallback (the anchor's date, no end) does not override them.
C5_ExplicitDatesBeatFallback ==
  (Requested /\ NoRuleMatches)
  => /\ IsSome(args.start_date)
          => Val(params).startDateTime.date = Val(args.start_date)
     /\ IsSome(args.end_date)
          => /\ IsSome(Val(params).endDateTime)
             /\ Val(Val(params).endDateTime).date = Val(args.end_date)

\* C6: for every size the caller gives (none, zero, negative, above 100),
\* the size sent to the event source is in 1..100, and it is 20 when the
\* caller gives none.
C6_SizeClamped ==
  Requested
  => /\ Val(params).size \in 1..100
     /\ IsNone(args.size) => Val(params).size = 20

\* the first moment of the window's first day; the anchor when the window
\* has no start
WindowStartMoment ==
  IF IsSome(start_date) THEN (Ymd2Ord(Val(start_date)) - BaseOrd) * 86400
  ELSE ClockMoment(Val(current_time))

\* C7: the startDateTime sent to the event source is max(window start,
\* anchor moment): never before the current moment, and 00:00:00 of the
\* window's first day when that day is a later one.
C7_StartIsMaxOfWindowAndAnchor ==
  Requested
  => MomentOf(Val(params).startDateTime)
       = (IF WindowStartMoment > ClockMoment(Val(current_time))
          THEN WindowStartMoment ELSE ClockMoment(Val(current_time)))

\* a raw record without a name, or without a local date that parses
Malformed(raw) ==
  \/ IsNone(raw.name)
  \/ IsNone(raw.localDate)
  \/ ~ValidYmd(Val(raw.localDate))

RawRecords == Val(response).events

MalformedAt == {i \in 1..Len(RawRecords) : Malformed(RawRecords[i])}

GotEvents == Returned /\ Val(response).kind = "events"

\* C8: for a batch of N raw records of which exactly one is malformed,
\* get_events returns status "success" with exactly the N-1 well-formed
\* records, normalised. (Stated for the calls whose size does not cut the
\* batch short, so that only the normalisation decides the list.)
C8_OneBadRecordIsSkipped ==
  (GotEvents /\ Cardinality(MalformedAt) = 1 /\ Len(RawRecords) <= SizeOf(args))
  => /\ Val(result).status = "success"
     /\ Len(Val(result).events) = Len(RawRecords) - 1
     /\ {e.src : e \in {Val(result).events[k] : k \in 1..Len(Val(result).events)}}
          = (1..Len(RawRecords)) \ MalformedAt
     /\ \A k \in 1..Len(Val(result).events) :
          Val(result).events[k].name
            = Val(RawRecords[Val(result).events[k].src].name)

Succeeded == Returned /\ Val(result).status = "success"

\* C9: for every order of the raw records, the events of a success result
\* are non-decreasing by date, and events of the same date keep the order
\* the source gave them.
C9_SortedByDateStable ==
  Succeeded
  => \A i, j \in 1..Len(Val(result).events) :
       i < j =>
         LET a == Val(result).events[i]
             b == Val(result).events[j]
         IN /\ Ymd2Ord(a.datetime.date) <= Ymd2Ord(b.datetime.date)
            /\ a.datetime.date = b.datetime.date => a.src < b.src

\* C9 witness: a success whose list has been reordered (the source gave the
\* later event first)
C9_Witness ==
  /\ Succeeded
  /\ Len(Val(result).events) = 2
  /\ Val(result).events[1].src = 2
  /\ Val(result).events[2].src = 1
  /\ Val(result).events[1].datetime.date # Val(result).events[2].datetime.date

\* C10: a call with size <= 0 that the source answers with valid events
\* returns status "success" and an empty list. (Stated for the calls that
\* carry a time expression, whose report intro does not depend on dates.)
C10_NonPositiveSizeGivesEmpty ==
  (/\ GotEvents
   /\ SizeOf(args) <= 0
   /\ MalformedAt = {}
   /\ IsSome(args.time_expression))
  => /\ Val(result).status = "success"
     /\ Val(result).events = <<>>

(***************************************************************************)
(* Properties of the normalised records and of the report (checked under   *)
(* SpecRecords).                                                           *)
(***************************************************************************)
\* the normalised records of the invocation, sorted, before the cap
Normalised == {events[k] : k \in 1..Len(events)}

\* the raw category of a normalised record
RawCategory(e) == SegmentName(RawRecords[e.src])

\* the segment names in lower case
LoweredName == [c \in SegmentNames |-> Lower(c)]

\* for each segment name, the position in the dict of the first key that
\* the name contains whatever its case, 0 when it contains none
KeywordOf ==
  [c \in SegmentNames |->
     LET hits == MatchingKeys(LoweredName[c])
     IN IF hits = {} THEN 0 ELSE CHOOSE i \in hits : \A j \in hits : i <= j]

FirstKeyword(e) == KeywordOf[RawCategory(e)]

ReportGroups == Val(result).report.groups

\* the group of the report that shows the event
GroupOf(e) ==
  CHOOSE k \in 1..Len(ReportGroups) :
    \E m \in 1..Len(ReportGroups[k].events) : ReportGroups[k].events[m].src = e.src

\* C11 as the specification states it: two raw categories with the same
\* first matching keyword ("Live Music Festival", "Music") get the same
\* label and are shown in the same group of the report.
C11_SameKeywordSameLabel ==
  Succeeded
  => \A a, b \in Normalised :
       (FirstKeyword(a) # 0 /\ FirstKeyword(a) = FirstKeyword(b))
       => /\ a.type = b.type
          /\ GroupOf(a) = GroupOf(b)

\* the segment names as str.title() writes them once lowered
TitledName == [c \in SegmentNames |-> Title(LoweredName[c])]

\* C11: the label is an emoji and the raw category in title case; the emoji
\* is that of the first key of the ordered table that the category contains,
\* whatever its case, and the default emoji when it contains none; two raw
\* categories with the same first matching keyword get the same emoji, and
\* two records are shown in the same group exactly when their categories
\* are the same text in title case, as they are when the raw categories
\* differ in case only.
C11_EmojiByFirstKeywordGroupByText ==
  Succeeded
  => /\ \A e \in Normalised :
          /\ e.type.text = TitledName[RawCategory(e)]
          /\ FirstKeyword(e) = 0 => e.type.emoji = "circus_tent"
          /\ FirstKeyword(e) # 0
               => e.type.emoji = category_emojis[FirstKeyword(e)].emoji
     /\ \A a, b \in Normalised :
          /\ FirstKeyword(a) = FirstKeyword(b) => a.type.emoji = b.type.emoji
          /\ GroupOf(a) = GroupOf(b)
               <=> TitledName[RawCategory(a)] = TitledName[RawCategory(b)]
          /\ LoweredName[RawCategory(a)] = LoweredName[RawCategory(b)]
               => GroupOf(a) = GroupOf(b)

\* C11 witness: "Music" and "Live Music Festival" in one answer, shown with
\* the same emoji in two groups
C11_Witness ==
  /\ Succeeded
  /\ \E a, b \in Normalised :
       /\ RawCategory(a) = Cat_Music
       /\ RawCategory(b) = Cat_Live_Music_Festival
       /\ a.type.emoji = "notes" /\ b.type.emoji = "notes"
       /\ GroupOf(a) # GroupOf(b)

\* the tiers of a raw record, none when the list is missing or empty
TiersOf(raw) == IF IsSome(raw.priceRanges) THEN Val(raw.priceRanges) ELSE <<>>

\* a raw record that nothing but its price tiers could keep out of the list
SoundButForPrice(raw) == ~Malformed(raw) /\ ~CategoryRaises(raw)

\* C12: a record with at least one price tier is emitted with the price
\* range {minimum of the tier minimums, maximum of the tier maximums}
\* (tiers {40,120} and {30,200} give {30,200}); a record without tiers, the
\* list missing or empty, is emitted too, with no price range. (Stated for
\* tiers that carry both bounds.)
C12_PriceRangeOverTiersOrAbsent ==
  GotEvents
  => \A i \in 1..Len(RawRecords) :
       LET raw == RawRecords[i]
           tiers == TiersOf(raw)
       IN (/\ SoundButForPrice(raw)
           /\ \A k \in 1..Len(tiers) : IsSome(tiers[k].min) /\ IsSome(tiers[k].max))
          => \E e \in Normalised :
               /\ e.src = i
               /\ tiers = <<>> => e.price_range = None
               /\ tiers # <<>> =>
                    /\ IsSome(e.price_range)
                    /\ \E k \in 1..Len(tiers) : Val(e.price_range).min = Val(tiers[k].min)
                    /\ \E k \in 1..Len(tiers) : Val(e.price_range).max = Val(tiers[k].max)
                    /\ \A k \in 1..Len(tiers) :
                         /\ Val(e.price_range).min <= Val(tiers[k].min)
                         /\ Val(e.price_range).max >= Val(tiers[k].max)
               /\ tiers = <<Tier(Some(40), Some(120)), Tier(Some(30), Some(200))>>
                    => e.price_range = Some([min |-> 30, max |-> 200])

(***************************************************************************)
(* Properties of the result (checked under Spec).                          *)
(***************************************************************************)
\* C13: an invocation that ends with no normalised record (no list of
\* events in the answer, an empty list, or every record skipped) returns
\* status "success", an empty list and the "no events found" report, with
\* no group in it. (Stated for the calls that carry a time expression,
\* whose report intro does not depend on dates.)
C13_NoRecordsGivesNoEventsReport ==
  (/\ Returned
   /\ Val(response).kind \in {"no_events", "events"}
   /\ events = <<>>
   /\ IsSome(args.time_expression))
  => /\ Val(result).status = "success"
     /\ Val(result).events = <<>>
     /\ Val(result).report.kind = "no_events"
     /\ Val(result).report.groups = <<>>

\* the source answered with a status other than 200, or with a payload that
\* does not parse
SourceFailed == Returned /\ Val(response).kind \in {"http_error", "bad_json"}

\* C14: when the source answers with a non-success status or an unparsable
\* payload, the invocation returns (it raises nothing) a dict with status
\* "error" and an error_message and with neither events nor report, after
\* exactly one call of the network.
C14_SourceFailureGivesErrorResult ==
  /\ net_calls <= 1
  /\ SourceFailed
       => /\ IsSome(result)
          /\ Val(result).status = "error"
          /\ DOMAIN Val(result) = {"status", "error_message"}
          /\ net_calls = 1

\* C14 witness: an unparsable payload has been answered with an error result
C14_Witness ==
  /\ SourceFailed
  /\ Val(response).kind = "bad_json"
  /\ Val(result).status = "error"
  /\ net_calls = 1

\* the intro of the report of a success result
TheIntro == Val(Val(result).report.intro)

\* the invocation has one day as its window
OneDayWindow == IsSome(start_date) /\ start_date = end_date

\* C15: the intro is chosen by four cases in order, and the result is a
\* success in each: a phrase is quoted as given; otherwise a window of the
\* one day that is the anchor's date gives the "today" intro; otherwise a
\* window of one other day names that day; otherwise (no phrase, no
\* start_date and no end_date included) the intro is the generic one.
C15_IntroByFourCases ==
  GotEvents
  => /\ Val(result).status = "success"
     /\ IF IsSome(args.time_expression)
        THEN TheIntro.kind = "phrase" /\ TheIntro.phrase = args.time_expression
        ELSE IF OneDayWindow /\ Val(start_date) = StrfDate(Val(current_time))
        THEN TheIntro.kind = "today"
        ELSE IF OneDayWindow
        THEN TheIntro.kind = "day" /\ TheIntro.day = start_date
        ELSE TheIntro.kind = "generic"

(***************************************************************************)
(* Cancellation (checked under SpecCancel).                                *)
(***************************************************************************)
\* C16: an invocation cancelled (or timed out) while its call of the
\* network is outstanding, the source never answering included, does not
\* stay blocked for ever: it eventually returns. (The claim adds that what
\* it returns is a dict with status "error"; stated here is the return
\* alone.)
C16_CancelledCallEventuallyReturns ==
  (cancelled /\ pc = "waiting") ~> (pc = "done" /\ IsSome(result))

(***************************************************************************)
(* The normalisation repeated (checked under SpecNormalize).               *)
(***************************************************************************)
\* C17: the same raw record normalised at two moments (before and after
\* local midnight, for one) gives the same canonical record both times, in
\* every field, the formatted datetime included.
C17_NormalizeTwiceIdentical ==
  Len(normalized) = 2 => normalized[1].out = normalized[2].out

(***************************************************************************)
(* Configuration (checked under SpecConfig).                               *)
(***************************************************************************)
\* C18: with the key of the event source missing from the configuration the
\* pipeline is never invoked: no request is sent to the source without a
\* key.
C18_NoRequestWithoutKey ==
  Requested => (IsSome(TM_API_KEY) /\ IsSome(Val(params).apikey))

(***************************************************************************)
(* The report against the returned list (checked under SpecRecords).       *)
(***************************************************************************)
\* the records the report shows, over all its groups
ShownInReport ==
  UNION {{ReportGroups[k].events[m].src : m \in 1..Len(ReportGroups[k].events)} :
           k \in 1..Len(ReportGroups)}

\* the records of the returned list
InReturnedList == {Val(result).events[k].src : k \in 1..Len(Val(result).events)}

\* C19: the list is cut to the size after the sort and before the grouping
\* and the rendering: the returned list is the first `size` records of the
\* sorted ones, and the report shows exactly the records of the returned
\* list, never one that the list omits.
C19_ReportShowsTheReturnedList ==
  Succeeded
  => /\ Val(result).events
          = SubSeq(events, 1, IF SizeOf(args) < Len(events) THEN SizeOf(args)
                              ELSE Len(events))
     /\ ShownInReport = InReturnedList

(***************************************************************************)
(* The start moment of a record (checked under Spec).                      *)
(***************************************************************************)
\* a local time of the source, "HH:MM:SS", 00:00:00 when the record has none
LocalTimeOf(raw) ==
  IF IsNone(raw.localTime) THEN <<0, 0, 0>>
  ELSE <<Val(raw.localTime) \div 3600, (Val(raw.localTime) % 3600) \div 60,
         Val(raw.localTime) % 60>>

\* C20: whatever the timezone of the host, the start moment of a normalised
\* record has, in the venue's zone, the wall-clock date and time of the
\* record's localDate and localTime (the zone is attached, the time is not
\* shifted), 00:00:00 standing for a missing localTime.
C20_StartMomentKeepsLocalDateAndTime ==
  GotEvents
  => \A e \in Normalised :
       /\ e.datetime.iso.date = Val(RawRecords[e.src].localDate)
       /\ e.datetime.iso.time = LocalTimeOf(RawRecords[e.src])
       /\ e.datetime.date = Val(RawRecords[e.src].localDate)

(***************************************************************************)
(* The price range of a record (checked under SpecRecords).                *)
(***************************************************************************)
\* C21: every event of a success result that has a price range has
\* min <= max in it, whatever the price tiers of the raw record, tiers with
\* only a min or only a max included.
C21_PriceRangeMinAtMostMax ==
  Succeeded
  => \A k \in 1..Len(Val(result).events) :
       IsSome(Val(result).events[k].price_range)
       => Val(Val(result).events[k].price_range).min
            <= Val(Val(result).events[k].price_range).max

(***************************************************************************)
(* The anchor moment of an invocation (checked under Spec).                *)
(***************************************************************************)
\* the date of the anchor that line 309 reads, in the venue's zone
AnchorDate == StrfDate(Val(current_time))

\* C22: every date computation of one invocation uses the same anchor
\* moment in the venue's zone, whatever the clock does between the steps:
\* the day the resolver falls back on (a phrase that matches no rule) is
\* the day of the anchor whose time of day the start timestamp carries; an
\* event is flagged is_today exactly when its date is the anchor's date; and
\* without a phrase a one-day window gets the "today" intro exactly when
\* that day is the anchor's date.
C22_OneAnchorPerInvocation ==
  /\ (Requested /\ NoRuleMatches)
       => /\ Val(start_date) = AnchorDate
          /\ Val(params).startDateTime.date = AnchorDate
          /\ Val(params).startDateTime.time = StrfTime(Val(current_time))
  /\ (Succeeded /\ GotEvents)
       => /\ \A e \in Normalised :
               e.datetime.is_today <=> e.datetime.date = AnchorDate
          /\ (IsNone(args.time_expression) /\ OneDayWindow)
               => (TheIntro.kind = "today" <=> Val(start_date) = AnchorDate)

====
